---------------------------- MODULE Spec2Model ----------------------------
(***************************************************************************)
(* A model of capture_window.py: locate a window, bring it to the front,   *)
(* screenshot its bounding box, resolve a serial (override, then           *)
(* accessibility, then OCR, then a timestamp name) and save a JPEG.        *)
(*                                                                         *)
(* Python strings are sequences of one-character strings.  None and ""     *)
(* are both the empty sequence wherever the code only tests truthiness     *)
(* ("if not serial"); where the code tells them apart (--title) the value  *)
(* is a record [given, text].                                              *)
(***************************************************************************)
EXTENDS Integers, Sequences, FiniteSets, TLC

VARIABLES
    pc,            \* position of the run in the script
    status,        \* exit status of the process, -1 while it runs
    PYWINAUTO_OK,  \* module flag, line 36/38
    OCR_OK,        \* module flag, line 45/47
    args,          \* parsed command line: title, serial
    outdirKind,    \* what --outdir names on disk: "absent", "dir" or "file"
    win,           \* result of find_window: [found, title]
    calls,         \* calls made on the outside world, in order
    stdout,        \* messages printed, in order
    stderr,        \* uncaught exceptions and usage errors reported
    box,           \* rectangle read by get_window_box, and its result
    pil_img,       \* TRUE once the screenshot is held
    serial,        \* the local variable serial of main()
    stages,        \* results returned by the extraction stages
    outfile,       \* file name decided for the JPEG
    files,         \* names of the files written in the output directory
    fnArg,         \* input of the pure function under check
    fnRes          \* its result

vars == <<pc, status, PYWINAUTO_OK, OCR_OK, args, outdirKind, win, calls,
          stdout, stderr, box, pil_img, serial, stages, outfile, files, fnArg, fnRes>>

runVars == <<pc, status, PYWINAUTO_OK, OCR_OK, args, outdirKind, win, calls,
             stdout, stderr, box, pil_img, serial, stages, outfile, files>>

----------------------------------------------------------------------------
(* Characters and the str methods the script uses                          *)

LowerSeq == <<"a","b","c","d","e","f","g","h","i","j","k","l","m",
              "n","o","p","q","r","s","t","u","v","w","x","y","z","é">>
UpperSeq == <<"A","B","C","D","E","F","G","H","I","J","K","L","M",
              "N","O","P","Q","R","S","T","U","V","W","X","Y","Z","É">>

Range(f) == {f[i] : i \in DOMAIN f}

AsciiLower == Range(LowerSeq) \ {"é"}
AsciiUpper == Range(UpperSeq) \ {"É"}
AsciiLetters == AsciiLower \cup AsciiUpper
Digits == {"0","1","2","3","4","5","6","7","8","9"}
Alnum == AsciiLetters \cup Digits
Whitespace == {" ", "\n", "\t"}
\* \w of a str pattern: Unicode letters and digits, and the underscore
WordChars == Alnum \cup {"_", "é", "É"}

\* str.upper() and str.lower(), one character
ToUpper == [c \in Range(LowerSeq) |->
               UpperSeq[CHOOSE i \in DOMAIN LowerSeq : LowerSeq[i] = c]]
ToLower == [c \in Range(UpperSeq) |->
               LowerSeq[CHOOSE i \in DOMAIN UpperSeq : UpperSeq[i] = c]]

UpperChar(c) == IF c \in DOMAIN ToUpper THEN ToUpper[c] ELSE c
LowerChar(c) == IF c \in DOMAIN ToLower THEN ToLower[c] ELSE c

Upper(s) == [i \in 1..Len(s) |-> UpperChar(s[i])]
Lower(s) == [i \in 1..Len(s) |-> LowerChar(s[i])]

\* str.strip(): drop leading and trailing whitespace
RECURSIVE LStrip(_)
LStrip(s) ==
    IF s # <<>> /\ Head(s) \in Whitespace THEN LStrip(Tail(s)) ELSE s

RECURSIVE RStrip(_)
RStrip(s) ==
    IF s # <<>> /\ s[Len(s)] \in Whitespace
    THEN RStrip(SubSeq(s, 1, Len(s) - 1))
    ELSE s

Strip(s) == LStrip(RStrip(s))

\* "sub in s"
Contains(s, sub) ==
    \E i \in 1..(Len(s) - Len(sub) + 1) : SubSeq(s, i, i + Len(sub) - 1) = sub

\* every string over alphabet of length at most n
StringsUpTo(alphabet, n) == UNION {[1..k -> alphabet] : k \in 0..n}

Min(S) == CHOOSE x \in S : \A y \in S : x <= y
Max(S) == CHOOSE x \in S : \A y \in S : x >= y

----------------------------------------------------------------------------
(* find_window                                                             *)

\* find_window trying the substring match before the exact one
find_window_partial_first(title, all_windows, active) ==
    IF ~title.given THEN active
    ELSE LET partial == {i \in DOMAIN all_windows :
                            Contains(Lower(all_windows[i]), Lower(title.text))}
             exact == {i \in DOMAIN all_windows :
                            Strip(all_windows[i]) = Strip(title.text)}
         IN  IF partial # {} THEN Min(partial)
             ELSE IF exact # {} THEN Min(exact) ELSE 0

\* index of the window find_window returns in all_windows (a sequence of
\* titles), 0 for None.  title is [given, text]; active is the index of the
\* window gw.getActiveWindow() returns, 0 when there is none.
find_window(title, all_windows, active) ==
    IF ~title.given THEN active
    ELSE LET exact == {i \in DOMAIN all_windows :
                            Strip(all_windows[i]) = Strip(title.text)}
             title_lower == Lower(title.text)
             partial == {i \in DOMAIN all_windows :
                            Contains(Lower(all_windows[i]), title_lower)}
         IN  IF exact # {} THEN Min(exact)
             ELSE IF partial # {} THEN Min(partial) ELSE 0

----------------------------------------------------------------------------
(* regex_pick_serial                                                       *)

IsWordAt(text, p) == p \in 1..Len(text) /\ text[p] \in WordChars

\* \b between position p-1 and p (p in 1..Len+1)
Boundary(text, p) == IsWordAt(text, p - 1) # IsWordAt(text, p)

\* The patterns \b[first][rest]{lo,hi}\b of SERIAL_REGEXES
SERIAL_REGEXES ==
    << [first |-> {"K", "k"}, rest |-> Alnum, lo |-> 5, hi |-> 20],
       [first |-> AsciiLetters, rest |-> Alnum \cup {"-"}, lo |-> 5, hi |-> 20] >>

\* lengths n of the repetition with which the pattern matches at position i
TokenLens(pattern, text, i) ==
    {n \in pattern.lo..pattern.hi :
        /\ i + n <= Len(text)
        /\ Boundary(text, i)
        /\ text[i] \in pattern.first
        /\ \A j \in 1..n : text[i + j] \in pattern.rest
        /\ Boundary(text, i + n + 1)}

\* re.search(pattern, text): leftmost start, greedy repetition; <<>> for None
re_search(pattern, text) ==
    LET starts == {i \in 1..Len(text) : TokenLens(pattern, text, i) # {}}
    IN  IF starts = {} THEN <<>>
        ELSE LET i == Min(starts)
                 n == Max(TokenLens(pattern, text, i))
             IN  SubSeq(text, i, i + n)

RECURSIVE pick_from(_, _)
pick_from(k, text) ==
    IF k > Len(SERIAL_REGEXES) THEN <<>>
    ELSE LET m == re_search(SERIAL_REGEXES[k], text)
         IN  IF m # <<>> THEN Upper(m) ELSE pick_from(k + 1, text)

regex_pick_serial(text) == pick_from(1, text)

----------------------------------------------------------------------------
(* decide_output_path                                                      *)

SafeChars == Alnum \cup {".", "_", "-"}

\* re.sub with the dot left out of the character class
RECURSIVE re_sub_unsafe_no_dot(_)
re_sub_unsafe_no_dot(s) ==
    IF s = <<>> THEN <<>>
    ELSE IF Head(s) \in SafeChars \ {"."}
         THEN <<Head(s)>> \o re_sub_unsafe_no_dot(Tail(s))
         ELSE <<"_">> \o re_sub_unsafe_no_dot(Tail(s))

\* re.sub(r"[^A-Za-z0-9._-]", "_", serial): scan left to right, replace each
\* match (one character) by "_"
RECURSIVE re_sub_unsafe(_)
re_sub_unsafe(s) ==
    IF s = <<>> THEN <<>>
    ELSE IF Head(s) \in SafeChars
         THEN <<Head(s)>> \o re_sub_unsafe(Tail(s))
         ELSE <<"_">> \o re_sub_unsafe(Tail(s))

JpgSuffix == <<".", "j", "p", "g">>

\* the file name of the path decide_output_path returns (outdir joined to it)
decide_output_path(s) == re_sub_unsafe(s) \o JpgSuffix

----------------------------------------------------------------------------
(* serial_via_ocr                                                          *)

\* str.splitlines() on "\n", as a sequence of lines
RECURSIVE splitlines(_, _)
splitlines(s, cur) ==
    IF s = <<>> THEN (IF cur = <<>> THEN <<>> ELSE <<cur>>)
    ELSE IF Head(s) = "\n" THEN <<cur>> \o splitlines(Tail(s), <<>>)
         ELSE splitlines(Tail(s), Append(cur, Head(s)))

\* [l.strip() for l in lines if l.strip()]
RECURSIVE stripped_lines(_)
stripped_lines(lines) ==
    IF lines = <<>> THEN <<>>
    ELSE IF Strip(Head(lines)) # <<>>
         THEN <<Strip(Head(lines))>> \o stripped_lines(Tail(lines))
         ELSE stripped_lines(Tail(lines))

\* " ".join(lines)
RECURSIVE join_space(_)
join_space(lines) ==
    IF lines = <<>> THEN <<>>
    ELSE IF Len(lines) = 1 THEN Head(lines)
         ELSE Head(lines) \o <<" ">> \o join_space(Tail(lines))

\* The alternatives (carrete|carreté|carrete:) in the order the regex tries them
LabelAlternatives ==
    << <<"c","a","r","r","e","t","e">>,
       <<"c","a","r","r","e","t","é">>,
       <<"c","a","r","r","e","t","e",":">> >>

\* [A-Za-z0-9\-]{5,20}, the second group of the label pattern
LabelToken == [class |-> Alnum \cup {"-"}, lo |-> 5, hi |-> 20]

\* re.IGNORECASE comparison of a literal at position i
LiteralAt(text, i, lit) ==
    /\ i + Len(lit) - 1 <= Len(text)
    /\ Lower(SubSeq(text, i, i + Len(lit) - 1)) = Lower(lit)

\* the ways (alternative a, k whitespace, n token characters) the label
\* pattern matches at position i
LabelMatches(text, i) ==
    {m \in [a : DOMAIN LabelAlternatives, k : 0..Len(text),
            n : LabelToken.lo..LabelToken.hi] :
        LET p == i + Len(LabelAlternatives[m.a])
        IN  /\ LiteralAt(text, i, LabelAlternatives[m.a])
            /\ p + m.k + m.n - 1 <= Len(text)
            /\ \A j \in 0..(m.k - 1) : text[p + j] \in Whitespace
            /\ \A j \in 0..(m.n - 1) : text[p + m.k + j] \in LabelToken.class}

\* group(2) of re.search on the label pattern: leftmost start, first
\* alternative, greedy \s*, greedy token; <<>> when there is no match
label_search(text) ==
    LET starts == {i \in 1..Len(text) : LabelMatches(text, i) # {}}
    IN  IF starts = {} THEN <<>>
        ELSE LET i == Min(starts)
                 ms == LabelMatches(text, i)
                 a == Min({m.a : m \in ms})
                 k == Max({m.k : m \in {x \in ms : x.a = a}})
                 n == Max({m.n : m \in {x \in ms : x.a = a /\ x.k = k}})
                 p == i + Len(LabelAlternatives[a]) + k
             IN  SubSeq(text, p, p + n - 1)

\* line 208 without .upper()
label_serial_as_read(joined) == label_search(joined)

\* line 208: serial = m.group(2).upper()
label_serial(joined) == Upper(label_search(joined))

\* serial_via_ocr after the recognizer ran: engine is [raises, text], what
\* pytesseract.image_to_string does on this image
serial_via_ocr(ocr_ok, engine) ==
    IF ~ocr_ok THEN <<>>
    ELSE IF engine.raises THEN <<>>
    ELSE IF engine.text = <<>> THEN <<>>
    ELSE LET joined == join_space(stripped_lines(splitlines(engine.text, <<>>)))
             anchored == label_serial(joined)
         IN  IF anchored # <<>> THEN anchored ELSE regex_pick_serial(joined)

----------------------------------------------------------------------------
(* serial_via_accessibility                                                *)

hint_label == <<"c","a","r","r","e","t","e">>

\* lines 137-141 and 154-158: the serial one Edit control gives, <<>> when
\* it gives none.  e is [name, val, raises]
edit_serial(e) ==
    IF e.raises \/ e.val = <<>> THEN <<>>
    ELSE LET picked == regex_pick_serial(e.val)
             s == IF picked # <<>> THEN picked ELSE Strip(e.val)
         IN  Upper(s)

\* the first serial among edits[k..], looking only at the controls named
\* after the label when by_name
RECURSIVE first_edit_serial(_, _, _)
first_edit_serial(edits, k, by_name) ==
    IF k > Len(edits) THEN <<>>
    ELSE LET e == edits[k]
             looked == ~by_name \/ (~e.raises /\ Contains(Lower(e.name), Lower(hint_label)))
             s == IF looked THEN edit_serial(e) ELSE <<>>
         IN  IF s # <<>> THEN s ELSE first_edit_serial(edits, k + 1, by_name)

\* scene is what UIA shows: [connects, edits, texts]
serial_via_accessibility(pywinauto_ok, scene) ==
    IF ~pywinauto_ok THEN <<>>
    ELSE IF ~scene.connects THEN <<>>
    ELSE LET first == first_edit_serial(scene.edits, 1, TRUE)
             targets == {i \in DOMAIN scene.texts :
                            Contains(Lower(Strip(scene.texts[i])), hint_label)}
         IN  IF first # <<>> THEN first
             ELSE IF targets # {} THEN first_edit_serial(scene.edits, 1, FALSE)
             ELSE <<>>

----------------------------------------------------------------------------
(* get_window_box, the timestamp name                                      *)

MinSize == 10

\* get_window_box with "<=" for "<" in the size test
get_window_box_inclusive(rect) ==
    LET left == rect[1]
        top == rect[2]
        right == rect[3]
        bottom == rect[4]
        w == IF right - left > 0 THEN right - left ELSE 0
        h == IF bottom - top > 0 THEN bottom - top ELSE 0
    IN  IF w <= MinSize \/ h <= MinSize
        THEN [ok |-> FALSE, region |-> <<>>]
        ELSE [ok |-> TRUE, region |-> <<left, top, w, h>>]

\* [ok, region]: ok is FALSE where the code raises ValueError
get_window_box(rect) ==
    LET left == rect[1]
        top == rect[2]
        right == rect[3]
        bottom == rect[4]
        w == IF right - left > 0 THEN right - left ELSE 0
        h == IF bottom - top > 0 THEN bottom - top ELSE 0
    IN  IF w < MinSize \/ h < MinSize
        THEN [ok |-> FALSE, region |-> <<>>]
        ELSE [ok |-> TRUE, region |-> <<left, top, w, h>>]

DigitSeq == <<"0","1","2","3","4","5","6","7","8","9">>

\* %Y, %m, %d, %H, %M, %S: n in decimal, zero-padded to width
RECURSIVE Padded(_, _)
Padded(n, width) ==
    IF width = 0 THEN <<>>
    ELSE Padded(n \div 10, width - 1) \o <<DigitSeq[(n % 10) + 1]>>

\* time.strftime("captura_%Y%m%d_%H%M%S") at local time t
strftime_captura(t) ==
    <<"c","a","p","t","u","r","a","_">>
        \o Padded(t.year, 4) \o Padded(t.mon, 2) \o Padded(t.mday, 2)
        \o <<"_">>
        \o Padded(t.hour, 2) \o Padded(t.min, 2) \o Padded(t.sec, 2)

\* line 277: the file name when no serial was resolved
timestamp_file(t) == strftime_captura(t) \o JpgSuffix

----------------------------------------------------------------------------
(* The inputs of a run                                                     *)

NoTitle == [given |-> FALSE, text |-> <<>>]
TitleArgs == {NoTitle, [given |-> TRUE, text |-> <<"P","e","d">>]}

SerialArgs == {<<>>, <<"K","9">>, <<"a","b","/","1">>}

\* what gw.getAllWindows() and gw.getActiveWindow() show
Desktops ==
    { [all |-> <<>>, active |-> 0],
      [all |-> <<<<"C","a","l","c">>>>, active |-> 0],
      [all |-> <<<<"C","a","l","c">>>>, active |-> 1],
      [all |-> <<<<"P","e","d","-","N">>, <<"P","e","d">>>>, active |-> 1] }

\* window coordinates: around the origin and around the minimum size
MaxCoord == 10
Coords == (-1..0) \cup (9..MaxCoord)
Rects == Coords \X Coords \X Coords \X Coords

\* the Edit controls UIA may show, and the static texts
EditControls ==
    {[name |-> n, val |-> v, raises |-> FALSE] :
        n \in {<<"C","a","r","r","e","t","e">>, <<"N","o","m">>}, v \in {<<"k","9","0","0","3","0","2">>, <<"a","b"," ","1">>, <<" "," ">>}}
    \cup {[name |-> <<"C","a","r","r","e","t","e">>, val |-> <<>>, raises |-> TRUE]}
MaxEdits == 2
Scenes ==
    [connects : BOOLEAN,
     edits : StringsUpTo(EditControls, MaxEdits),
     texts : {<<>>, <<<<" ","C","a","r","r","e","t","e",":"," ">>>>}]

\* what the recognizer may do on the captured image
Engines ==
    {[raises |-> TRUE, text |-> <<>>]}
    \cup {[raises |-> FALSE, text |-> t] :
            t \in {<<>>, <<"a","b","c">>, <<"C","a","r","r","e","t","e",":"," ","a","b","1","2","3","\n","x">>, <<"l","o","t","e"," ","k","9","0","0","3","0","2"," ","f","i","n">>,
                   <<"c","a","r","r","e","t","é"," ","1","2","-","4","5"," ","k","1","2","3","4","5","6","7">>}}

Clock ==
    { [year |-> 2024, mon |-> 1, mday |-> 5, hour |-> 9, min |-> 3, sec |-> 7],
      [year |-> 2025, mon |-> 12, mday |-> 31, hour |-> 23, min |-> 59, sec |-> 58] }

\* what serial_via_accessibility returns over the scenes, by PYWINAUTO_OK
AccReturns ==
    [ok \in BOOLEAN |-> {serial_via_accessibility(ok, scene) : scene \in Scenes}]

\* what serial_via_ocr returns over the recognizer's behaviours, by OCR_OK
OcrReturns ==
    [ok \in BOOLEAN |-> {serial_via_ocr(ok, engine) : engine \in Engines}]

SaveOutcomes == {"ok", "PermissionError", "FileNotFoundError", "Exception"}

----------------------------------------------------------------------------
(* The run of the script                                                   *)

Call(op, ok) == [op |-> op, ok |-> ok]

NoStage == [invoked |-> FALSE, val |-> <<>>]

RunInit ==
    /\ pc = "import"
    /\ status = -1
    /\ PYWINAUTO_OK = FALSE
    /\ OCR_OK = FALSE
    /\ args = [title |-> NoTitle, serial |-> <<>>]
    /\ outdirKind \in {"absent", "dir", "file"}
    /\ win = [found |-> FALSE, title |-> <<>>, isMinimized |-> FALSE]
    /\ calls = <<>>
    /\ stdout = <<>>
    /\ stderr = <<>>
    /\ box = [rect |-> <<>>, ok |-> FALSE, region |-> <<>>]
    /\ pil_img = FALSE
    /\ serial = <<>>
    /\ stages = [acc |-> NoStage, ocr |-> NoStage]
    /\ outfile = <<>>
    /\ files = {}

Init ==
    /\ RunInit
    /\ fnArg = <<>>
    /\ fnRes = <<>>

\* sys.exit(code)
Exit(code) ==
    /\ pc' = "exited"
    /\ status' = code

\* an exception nothing catches: the interpreter prints the traceback and
\* the process ends with status 1
Uncaught(exc) ==
    /\ stderr' = Append(stderr, exc)
    /\ Exit(1)

\* "if not serial" (lines 262, 265, 269)
NotSerialAlways(s) == TRUE
NotSerial(s) == s = <<>>

\* "if win is None" (line 242)
WinIsNoneNever(w) == FALSE
WinIsNone(w) == ~w.found

\* lines 24-29
ImportCapture ==
    /\ pc = "import"
    /\ \E ok \in BOOLEAN :
        IF ok
        THEN /\ pc' = "import_optional"
             /\ UNCHANGED <<status, stdout>>
        ELSE /\ stdout' = Append(stdout, "missing_deps")
             /\ Exit(1)
    /\ UNCHANGED <<PYWINAUTO_OK, OCR_OK, args, outdirKind, win, calls, stderr,
                   box, pil_img, serial, stages, outfile, files, fnArg, fnRes>>

\* lines 32-47
ImportOptional ==
    /\ pc = "import_optional"
    /\ PYWINAUTO_OK' \in BOOLEAN
    /\ OCR_OK' \in BOOLEAN
    /\ pc' = "def"
    /\ UNCHANGED <<status, args, outdirKind, win, calls, stdout, stderr, box,
                   pil_img, serial, stages, outfile, files, fnArg, fnRes>>

\* lines 94 and 166: the def statements evaluate the annotation Image.Image
\* when annotations are evaluated eagerly (Python before 3.14); Image is
\* bound only where line 44 ran, that is where OCR_OK is True
DefineFunctions ==
    /\ pc = "def"
    /\ \E eager \in BOOLEAN :
        IF eager /\ ~OCR_OK
        THEN Uncaught("NameError")
        ELSE /\ pc' = "ensure_windows"
             /\ UNCHANGED <<status, stderr>>
    /\ UNCHANGED <<PYWINAUTO_OK, OCR_OK, args, outdirKind, win, calls, stdout,
                   box, pil_img, serial, stages, outfile, files, fnArg, fnRes>>

\* lines 50-52, 223
EnsureWindows ==
    /\ pc = "ensure_windows"
    /\ \E win32 \in BOOLEAN :
        IF win32
        THEN /\ pc' = "parse_args"
             /\ UNCHANGED <<status, stderr>>
        ELSE Uncaught("OSError")
    /\ UNCHANGED <<PYWINAUTO_OK, OCR_OK, args, outdirKind, win, calls, stdout,
                   box, pil_img, serial, stages, outfile, files, fnArg, fnRes>>

\* lines 225-230: --outdir is required; argparse reports a missing one on
\* stderr and exits with status 2
ParseArgs ==
    /\ pc = "parse_args"
    /\ \E outdir_given \in BOOLEAN, t \in TitleArgs, s \in SerialArgs :
        IF outdir_given
        THEN /\ args' = [title |-> t, serial |-> s]
             /\ pc' = "outdir"
             /\ UNCHANGED <<status, stderr>>
        ELSE /\ stderr' = Append(stderr, "usage")
             /\ Exit(2)
             /\ UNCHANGED args
    /\ UNCHANGED <<PYWINAUTO_OK, OCR_OK, outdirKind, win, calls, stdout, box,
                   pil_img, serial, stages, outfile, files, fnArg, fnRes>>

\* lines 232-238
EnsureOutdir ==
    /\ pc = "outdir"
    /\ IF outdirKind # "absent"
       THEN /\ pc' = "find_window"
            /\ UNCHANGED <<status, outdirKind, calls, stdout>>
       ELSE \E ok \in BOOLEAN :
            /\ calls' = Append(calls, Call("mkdir", ok))
            /\ IF ok
               THEN /\ outdirKind' = "dir"
                    /\ pc' = "find_window"
                    /\ UNCHANGED <<status, stdout>>
               ELSE /\ stdout' = Append(stdout, "mkdir_error")
                    /\ Exit(5)
                    /\ UNCHANGED outdirKind
    /\ UNCHANGED <<PYWINAUTO_OK, OCR_OK, args, win, stderr, box, pil_img,
                   serial, stages, outfile, files, fnArg, fnRes>>

\* lines 241-245
FindWindow ==
    /\ pc = "find_window"
    /\ \E d \in Desktops, m \in BOOLEAN :
        LET i == find_window(args.title, d.all, d.active)
        IN  win' = IF i = 0
                   THEN [found |-> FALSE, title |-> <<>>, isMinimized |-> FALSE]
                   ELSE [found |-> TRUE, title |-> d.all[i], isMinimized |-> m]
    /\ calls' = Append(calls, Call("find_window", win'.found))
    /\ IF WinIsNone(win')
       THEN /\ stdout' = Append(stdout, "not_found")
            /\ Exit(2)
       ELSE /\ pc' = "bring_to_front"
            /\ UNCHANGED <<status, stdout>>
    /\ UNCHANGED <<PYWINAUTO_OK, OCR_OK, args, outdirKind, stderr, box,
                   pil_img, serial, stages, outfile, files, fnArg, fnRes>>

\* lines 67-74: the requests bring_to_front issues when the first activate,
\* the restore and the second activate succeed or raise
bring_to_front(isMinimized, ok1, ok2, ok3) ==
    <<Call("activate", ok1)>>
    \o (IF ~ok1 THEN <<>>
        ELSE IF isMinimized
             THEN <<Call("restore", ok2)>>
                  \o (IF ok2 THEN <<Call("activate", ok3)>> ELSE <<>>)
             ELSE <<Call("activate", ok3)>>)

\* line 247
BringToFront ==
    /\ pc = "bring_to_front"
    /\ \E ok1 \in BOOLEAN, ok2 \in BOOLEAN, ok3 \in BOOLEAN :
        calls' = calls \o bring_to_front(win.isMinimized, ok1, ok2, ok3)
    /\ pc' = "get_window_box"
    /\ UNCHANGED <<status, PYWINAUTO_OK, OCR_OK, args, outdirKind, win, stdout,
                   stderr, box, pil_img, serial, stages, outfile, files,
                   fnArg, fnRes>>

\* lines 248-252
GetWindowBox ==
    /\ pc = "get_window_box"
    /\ \E rect \in Rects :
        LET r == get_window_box(rect)
        IN  box' = [rect |-> rect, ok |-> r.ok, region |-> r.region]
    /\ IF box'.ok
       THEN /\ pc' = "screenshot"
            /\ UNCHANGED <<status, stdout>>
       ELSE /\ stdout' = Append(stdout, "invalid_region")
            /\ Exit(3)
    /\ UNCHANGED <<PYWINAUTO_OK, OCR_OK, args, outdirKind, win, calls, stderr,
                   pil_img, serial, stages, outfile, files, fnArg, fnRes>>

\* lines 86-91, 258: RuntimeError is raised to main, which does not catch it
Screenshot ==
    /\ pc = "screenshot"
    /\ \E ok \in BOOLEAN :
        /\ calls' = Append(calls, Call("screenshot", ok))
        /\ IF ok
           THEN /\ pil_img' = TRUE
                /\ pc' = "serial"
                /\ UNCHANGED <<status, stderr>>
           ELSE /\ Uncaught("RuntimeError")
                /\ UNCHANGED pil_img
    /\ UNCHANGED <<PYWINAUTO_OK, OCR_OK, args, outdirKind, win, stdout, box,
                   serial, stages, outfile, files, fnArg, fnRes>>

\* line 261
TakeOverride ==
    /\ pc = "serial"
    /\ serial' = args.serial
    /\ pc' = "accessibility"
    /\ UNCHANGED <<status, PYWINAUTO_OK, OCR_OK, args, outdirKind, win, calls,
                   stdout, stderr, box, pil_img, stages, outfile, files,
                   fnArg, fnRes>>

\* lines 262-264
AccessibilityStage ==
    /\ pc = "accessibility"
    /\ IF NotSerial(serial)
       THEN \E v \in AccReturns[PYWINAUTO_OK] :
                /\ calls' = Append(calls, Call("serial_via_accessibility", TRUE))
                /\ stages' = [stages EXCEPT !.acc = [invoked |-> TRUE, val |-> v]]
                /\ serial' = v
       ELSE UNCHANGED <<calls, stages, serial>>
    /\ pc' = "ocr"
    /\ UNCHANGED <<status, PYWINAUTO_OK, OCR_OK, args, outdirKind, win, stdout,
                   stderr, box, pil_img, outfile, files, fnArg, fnRes>>

\* lines 265-267
OcrStage ==
    /\ pc = "ocr"
    /\ IF NotSerial(serial)
       THEN \E v \in OcrReturns[OCR_OK] :
                /\ calls' = Append(calls, Call("serial_via_ocr", TRUE))
                /\ stages' = [stages EXCEPT !.ocr = [invoked |-> TRUE, val |-> v]]
                /\ serial' = v
       ELSE UNCHANGED <<calls, stages, serial>>
    /\ pc' = "name"
    /\ UNCHANGED <<status, PYWINAUTO_OK, OCR_OK, args, outdirKind, win, stdout,
                   stderr, box, pil_img, outfile, files, fnArg, fnRes>>

\* lines 269-279
DecideName ==
    /\ pc = "name"
    /\ IF NotSerial(serial)
       THEN /\ stdout' = Append(stdout, "no_serial_warning")
            /\ \E t \in Clock : outfile' = timestamp_file(t)
       ELSE /\ outfile' = decide_output_path(serial)
            /\ UNCHANGED stdout
    /\ pc' = "save"
    /\ UNCHANGED <<status, PYWINAUTO_OK, OCR_OK, args, outdirKind, win, calls,
                   stderr, box, pil_img, serial, stages, files, fnArg, fnRes>>

\* lines 94-103, 282-286: parent.mkdir raises where the path names a file;
\* whatever save_jpg raises, main prints it and exits with status 4
SaveJpg ==
    /\ pc = "save"
    /\ IF outdirKind = "file"
       THEN /\ calls' = Append(calls, Call("mkdir", FALSE))
            /\ stdout' = Append(stdout, "save_error")
            /\ Exit(4)
            /\ UNCHANGED files
       ELSE \E outcome \in SaveOutcomes :
            /\ calls' = calls \o <<Call("mkdir", TRUE), Call("save", outcome = "ok")>>
            /\ IF outcome = "ok"
               THEN /\ files' = files \cup {outfile}
                    /\ pc' = "report"
                    /\ UNCHANGED <<status, stdout>>
               ELSE /\ stdout' = Append(stdout, "save_error")
                    /\ Exit(4)
                    /\ UNCHANGED files
    /\ UNCHANGED <<PYWINAUTO_OK, OCR_OK, args, outdirKind, win, stderr, box,
                   pil_img, serial, stages, outfile, fnArg, fnRes>>

\* lines 288-292, then the script ends
Report ==
    /\ pc = "report"
    /\ stdout' = IF ~NotSerial(serial)
                 THEN stdout \o <<"saved", "serial_detected">>
                 ELSE Append(stdout, "saved_no_serial")
    /\ Exit(0)
    /\ UNCHANGED <<PYWINAUTO_OK, OCR_OK, args, outdirKind, win, calls, stderr,
                   box, pil_img, serial, stages, outfile, files, fnArg, fnRes>>

Next ==
    \/ ImportCapture
    \/ ImportOptional
    \/ DefineFunctions
    \/ EnsureWindows
    \/ ParseArgs
    \/ EnsureOutdir
    \/ FindWindow
    \/ BringToFront
    \/ GetWindowBox
    \/ Screenshot
    \/ TakeOverride
    \/ AccessibilityStage
    \/ OcrStage
    \/ DecideName
    \/ SaveJpg
    \/ Report

Spec == Init /\ [][Next]_vars

----------------------------------------------------------------------------
(* The pure functions on their own, over every input within the bounds     *)

\* no run in progress
RunIdle ==
    /\ pc = "function"
    /\ status = -1
    /\ PYWINAUTO_OK = FALSE
    /\ OCR_OK = FALSE
    /\ args = [title |-> NoTitle, serial |-> <<>>]
    /\ outdirKind = "dir"
    /\ win = [found |-> FALSE, title |-> <<>>, isMinimized |-> FALSE]
    /\ calls = <<>>
    /\ stdout = <<>>
    /\ stderr = <<>>
    /\ box = [rect |-> <<>>, ok |-> FALSE, region |-> <<>>]
    /\ pil_img = FALSE
    /\ serial = <<>>
    /\ stages = [acc |-> NoStage, ocr |-> NoStage]
    /\ outfile = <<>>
    /\ files = {}

NotComputed == [done |-> FALSE, val |-> <<>>]

\* find_window over every desktop of at most MaxWindows windows
FindAlphabet == {"a", "A", " "}
MaxTitleLen == 2
MaxWindows == 2
FindTitles == StringsUpTo(FindAlphabet, MaxTitleLen)

InitFind ==
    /\ RunIdle
    /\ \E all \in StringsUpTo(FindTitles, MaxWindows) :
        \/ \E t \in FindTitles :
            fnArg = [title |-> [given |-> TRUE, text |-> t], all |-> all, active |-> 0]
        \/ \E a \in 0..Len(all) :
            fnArg = [title |-> NoTitle, all |-> all, active |-> a]
    /\ fnRes = NotComputed

ApplyFindWindow ==
    /\ ~fnRes.done
    /\ fnRes' = [done |-> TRUE,
                 val |-> find_window(fnArg.title, fnArg.all, fnArg.active)]
    /\ UNCHANGED <<runVars, fnArg>>

SpecFind == InitFind /\ [][ApplyFindWindow]_vars

\* regex_pick_serial over every text of at most MaxTextLen characters
RegexAlphabet == {"K", "1", "-", " "}
MaxTextLen == 9

InitRegex ==
    /\ RunIdle
    /\ fnArg \in StringsUpTo(RegexAlphabet, MaxTextLen)
    /\ fnRes = NotComputed

ApplyRegexPickSerial ==
    /\ ~fnRes.done
    /\ fnRes' = [done |-> TRUE, val |-> regex_pick_serial(fnArg)]
    /\ UNCHANGED <<runVars, fnArg>>

SpecRegex == InitRegex /\ [][ApplyRegexPickSerial]_vars

\* decide_output_path over every serial of at most MaxSerialLen characters
SerialAlphabet == {"A", "b", "1", ".", "_", "-", "/", ":"}
MaxSerialLen == 4

InitSanitize ==
    /\ RunIdle
    /\ fnArg \in StringsUpTo(SerialAlphabet, MaxSerialLen)
    /\ fnRes = NotComputed

ApplyDecideOutputPath ==
    /\ ~fnRes.done
    /\ fnRes' = [done |-> TRUE, val |-> decide_output_path(fnArg)]
    /\ UNCHANGED <<runVars, fnArg>>

SpecSanitize == InitSanitize /\ [][ApplyDecideOutputPath]_vars

----------------------------------------------------------------------------
(* Properties                                                              *)

Ops(log) == {log[i].op : i \in DOMAIN log}
Printed == Range(stdout)
Reported == Range(stderr)
Named == outfile # <<>>
TokenChars == AsciiUpper \cup Digits \cup {"-"}
IsToken(s) == s # <<>> /\ \A i \in DOMAIN s : s[i] \in TokenChars

\* C1: the serial is resolved by the chain override, accessibility, OCR,
\* timestamp; a stage is invoked only if every earlier one gave nothing: with
\* a non-empty --serial neither stage is invoked and the file is named by the
\* sanitized override; OCR is invoked only after accessibility returned
\* nothing; the timestamp name is used only if all three gave nothing; the
\* first non-empty result names the file.
C1_ResolutionChain ==
    /\ args.serial # <<>> =>
        /\ "serial_via_accessibility" \notin Ops(calls)
        /\ "serial_via_ocr" \notin Ops(calls)
        /\ Named => outfile = re_sub_unsafe(args.serial) \o JpgSuffix
    /\ "serial_via_accessibility" \in Ops(calls) <=> stages.acc.invoked
    /\ "serial_via_ocr" \in Ops(calls) <=> stages.ocr.invoked
    /\ stages.ocr.invoked =>
        /\ args.serial = <<>>
        /\ stages.acc.invoked
        /\ stages.acc.val = <<>>
        /\ \E i, j \in DOMAIN calls :
            /\ i < j
            /\ calls[i].op = "serial_via_accessibility"
            /\ calls[j].op = "serial_via_ocr"
    /\ "no_serial_warning" \in Printed =>
        /\ args.serial = <<>>
        /\ stages.acc.invoked /\ stages.acc.val = <<>>
        /\ stages.ocr.invoked /\ stages.ocr.val = <<>>
    /\ Named =>
        LET results == <<args.serial, stages.acc.val, stages.ocr.val>>
            given == {k \in 1..3 : results[k] # <<>>}
        IN  IF given = {}
            THEN "no_serial_warning" \in Printed
                 /\ outfile \in {timestamp_file(t) : t \in Clock}
            ELSE /\ serial = results[Min(given)]
                 /\ outfile = re_sub_unsafe(results[Min(given)]) \o JpgSuffix
                 /\ "no_serial_warning" \notin Printed

\* a run with an override that saved the file under the sanitized override
C1_Witness ==
    /\ pc = "exited" /\ status = 0
    /\ args.serial = <<"a","b","/","1">>
    /\ files = {<<"a","b","_","1",".","j","p","g">>}
    /\ "screenshot" \in Ops(calls)

\* C4: when find_window returns no window the run ends with status 2 and
\* never activates, screenshots, extracts a serial or writes a file.
C4_NotFoundExits2 ==
    Call("find_window", FALSE) \in Range(calls) =>
        /\ pc = "exited"
        /\ status = 2
        /\ Ops(calls) \cap {"activate", "restore", "screenshot", "save",
                            "serial_via_accessibility", "serial_via_ocr"} = {}
        /\ ~pil_img
        /\ files = {}

\* a title was requested, no window matched it, and the run ended
C4_Witness ==
    /\ args.title.given
    /\ Call("find_window", FALSE) \in Range(calls)
    /\ "not_found" \in Printed
    /\ status = 2

\* C5: a window whose width max(0, right-left) or height max(0, bottom-top)
\* is below 10 makes get_window_box fail: the run ends with status 3, takes
\* no screenshot and writes no file; otherwise get_window_box returns
\* (left, top, right-left, bottom-top).
C5_RegionCheck ==
    box.rect # <<>> =>
        LET left == box.rect[1]
            top == box.rect[2]
            right == box.rect[3]
            bottom == box.rect[4]
        IN  IF right - left < 10 \/ bottom - top < 10
            THEN /\ ~box.ok
                 /\ pc = "exited"
                 /\ status = 3
                 /\ "screenshot" \notin Ops(calls)
                 /\ ~pil_img
                 /\ files = {}
            ELSE /\ box.ok
                 /\ box.region = <<left, top, right - left, bottom - top>>

\* a rectangle with right < left ended the run with status 3
C5_Witness ==
    /\ box.rect # <<>>
    /\ box.rect[3] < box.rect[1]
    /\ pc = "exited"
    /\ status = 3

\* captura_YYYYMMDD_HHMMSS.jpg
IsTimestampFile(f) ==
    /\ Len(f) = 27
    /\ SubSeq(f, 1, 8) = <<"c","a","p","t","u","r","a","_">>
    /\ \A i \in 9..16 : f[i] \in Digits
    /\ f[17] = "_"
    /\ \A i \in 18..23 : f[i] \in Digits
    /\ SubSeq(f, 24, 27) = JpgSuffix

\* the run ended for a cause other than the optional libraries: a missing
\* capture library, the platform, the command line, the directory, the
\* window, its region, the screenshot or the save
EndedForAnotherCause ==
    \/ Printed \cap {"missing_deps", "mkdir_error", "not_found",
                     "invalid_region", "save_error"} # {}
    \/ Reported \cap {"usage", "OSError", "RuntimeError"} # {}

\* C2: with a located window, a valid region, no --serial, and neither the
\* accessibility nor the OCR libraries available, the run writes exactly one
\* file captura_YYYYMMDD_HHMMSS.jpg, prints the warning and ends with status 0.
\* (A located window and a valid region are read as: the run did not end for
\* want of them, nor for any other cause outside the optional libraries.)
C2_FallbackRun ==
    (/\ pc = "exited"
     /\ ~PYWINAUTO_OK
     /\ ~OCR_OK
     /\ args.serial = <<>>
     /\ ~EndedForAnotherCause)
    => /\ status = 0
       /\ Cardinality(files) = 1
       /\ \A f \in files : IsTimestampFile(f)
       /\ "no_serial_warning" \in Printed

\* C3: every run ends with one status, each for its documented cause: 0 iff
\* the JPEG was saved, 1 only for a missing required library, 2 only for no
\* window, 3 only for an invalid region, 4 whenever saving fails, 5 whenever
\* the directory cannot be created; a failed screenshot or platform check
\* ends the run without a file and without a status documented for another
\* cause.  (Stated of the runs that get past the def statements.)
C3_ExitStatuses ==
    (pc = "exited" /\ "NameError" \notin Reported) =>
        /\ status = 0 <=> files # {}
        /\ status = 1 => "missing_deps" \in Printed
        /\ status = 2 => Call("find_window", FALSE) \in Range(calls)
        /\ status = 3 => box.rect # <<>> /\ ~box.ok
        /\ Call("save", FALSE) \in Range(calls) => status = 4
        /\ Call("mkdir", FALSE) \in Range(calls) => status = 5
        /\ Call("screenshot", FALSE) \in Range(calls) =>
            files = {} /\ status \notin 0..5
        /\ "OSError" \in Reported => files = {} /\ status \notin 0..5

\* C10: each request of bring_to_front is best-effort by itself: a failed
\* request neither ends the run nor keeps the later ones from being issued;
\* for a minimized window a restore and then an activate are requested before
\* get_window_box reads the rectangle, even if the first activate failed.
C10_EachRequestBestEffort ==
    "activate" \in Ops(calls) =>
        LET acts == {i \in DOMAIN calls : calls[i].op = "activate"}
        IN  /\ pc = "exited" => box.rect # <<>>
            /\ Cardinality(acts) = 2
            /\ win.isMinimized =>
                \E r \in DOMAIN calls :
                    /\ calls[r].op = "restore"
                    /\ Min(acts) < r
                    /\ r < Max(acts)

\* the leftmost, longest substring of text matching K[A-Z0-9-]{8,}
KSerialClass == AsciiUpper \cup Digits \cup {"-"}
KSerialRun(text, i) ==
    Max({n \in 0..(Len(text) - i) :
            \A j \in 1..n : text[i + j] \in KSerialClass})
KSerialMatch(text) ==
    LET starts == {i \in 1..Len(text) :
                      text[i] = "K" /\ KSerialRun(text, i) >= 8}
    IN  IF starts = {} THEN <<>>
        ELSE SubSeq(text, Min(starts), Min(starts) + KSerialRun(text, Min(starts)))

\* C6: for every text containing a substring that matches K[A-Z0-9-]{8,},
\* regex_pick_serial returns exactly that substring, uppercased.
C6_KSerialReturned ==
    (fnRes.done /\ KSerialMatch(fnArg) # <<>>)
        => fnRes.val = Upper(KSerialMatch(fnArg))

\* C7 as claimed: every serial that names the file is a non-empty uppercase
\* token of letters A-Z, digits and hyphens, whichever stage gave it.
C7_SerialIsToken ==
    (Named /\ "no_serial_warning" \notin Printed) => IsToken(serial)

\* C7 as amended: a serial that names the file is non-empty; one given by
\* --serial is used as given; one returned by serial_via_accessibility has no
\* letter a-z; one returned by serial_via_ocr is an uppercase token of letters
\* A-Z, digits and hyphens.
C7_SerialBySource ==
    (Named /\ "no_serial_warning" \notin Printed) =>
        /\ serial # <<>>
        /\ args.serial # <<>> => serial = args.serial
        /\ (args.serial = <<>> /\ stages.acc.val # <<>>) =>
            /\ serial = stages.acc.val
            /\ \A i \in DOMAIN serial : serial[i] \notin AsciiLower
        /\ (args.serial = <<>> /\ stages.acc.val = <<>>) =>
            /\ serial = stages.ocr.val
            /\ IsToken(serial)

\* the recognizer read "Carrete: ab123" and the file was saved as AB123.jpg
C7_Witness ==
    /\ pc = "exited" /\ status = 0
    /\ args.serial = <<>>
    /\ stages.acc.invoked /\ stages.acc.val = <<>>
    /\ serial = <<"A","B","1","2","3">>
    /\ files = {<<"A","B","1","2","3",".","j","p","g">>}

\* C8: decide_output_path names the file t + ".jpg", where t is as long as
\* the serial s, t[i] = s[i] where s[i] is in [A-Za-z0-9._-] and "_"
\* elsewhere; the name has only characters of that class, and sanitizing it
\* again changes nothing.
C8_Sanitized ==
    fnRes.done =>
        LET name == fnRes.val
            allowed == Alnum \cup {".", "_", "-"}
            t == SubSeq(name, 1, Len(name) - 4)
        IN  /\ Len(name) = Len(fnArg) + 4
            /\ SubSeq(name, Len(fnArg) + 1, Len(name)) = <<".", "j", "p", "g">>
            /\ \A i \in DOMAIN fnArg :
                t[i] = IF fnArg[i] \in allowed THEN fnArg[i] ELSE "_"
            /\ \A i \in DOMAIN name : name[i] \in allowed
            /\ decide_output_path(t) = name

\* "A/1:" became "A_1_.jpg"
C8_Witness ==
    /\ fnRes.done
    /\ fnArg = <<"A", "/", "1", ":">>
    /\ fnRes.val = <<"A", "_", "1", "_", ".", "j", "p", "g">>

SubstringMatches(text, all) ==
    {i \in DOMAIN all : Contains(Lower(all[i]), Lower(text))}

\* C9 as claimed: if some window's trimmed title equals the requested title,
\* find_window returns the first such window, even after an earlier
\* substring match; otherwise the first case-insensitive substring match;
\* otherwise none.
C9_ExactOverSubstring ==
    (fnRes.done /\ fnArg.title.given) =>
        LET text == fnArg.title.text
            all == fnArg.all
            exact == {i \in DOMAIN all : Strip(all[i]) = text}
            partial == SubstringMatches(text, all)
        IN  IF exact # {}
            THEN fnRes.val \in exact /\ \A j \in exact : fnRes.val <= j
            ELSE IF partial # {}
                 THEN fnRes.val \in partial /\ \A j \in partial : fnRes.val <= j
                 ELSE fnRes.val = 0

\* C9 as amended: the exact match compares the trimmed window title with the
\* trimmed requested title.
C9_TrimmedExactOverSubstring ==
    (fnRes.done /\ fnArg.title.given) =>
        LET text == fnArg.title.text
            all == fnArg.all
            exact == {i \in DOMAIN all : Strip(all[i]) = Strip(text)}
            partial == SubstringMatches(text, all)
        IN  IF exact # {}
            THEN fnRes.val \in exact /\ \A j \in exact : fnRes.val <= j
            ELSE IF partial # {}
                 THEN fnRes.val \in partial /\ \A j \in partial : fnRes.val <= j
                 ELSE fnRes.val = 0

\* the second window is returned for its exact title although the first
\* contains the requested title
C9_Witness ==
    /\ fnRes.done
    /\ fnArg.title.given
    /\ Len(fnArg.all) = 2
    /\ 1 \in SubstringMatches(fnArg.title.text, fnArg.all)
    /\ Strip(fnArg.all[1]) # Strip(fnArg.title.text)
    /\ fnArg.all[2] = fnArg.title.text
    /\ fnArg.title.text # <<>>
    /\ fnRes.val = 2

=============================================================================
